---- MODULE Spec2Model ----
(***************************************************************************)
(* A model of src/helpers.js of moment-timezone-data-webpack-plugin:       *)
(* createMatchers / anyMatch (matcher compilation and evaluation) and      *)
(* cacheKey / cacheDir / cacheFile (content-addressed cache resolution).   *)
(*                                                                         *)
(* JavaScript values are records tagged by the field t.  A JavaScript      *)
(* string is a sequence of tokens (one token per character wherever the    *)
(* characters matter: filter values, regular-expression sources, the       *)
(* cache key).  Completions of calls that may throw are records tagged by  *)
(* the field c.                                                            *)
(***************************************************************************)
EXTENDS Integers, Sequences, FiniteSets, TLC

VARIABLES
  \* ---- matcher compilation and evaluation (createMatchers, anyMatch)
  mpc,             \* position of the caller: "start", "compiled", "matched"
  matchItems,      \* the argument of createMatchers
  matchers,        \* the completion of createMatchers(matchItems)
  item,            \* anyMatch's first argument
  regExpMatchers,  \* anyMatch's second argument
  extraMatchers,   \* anyMatch's third argument (Undefined when not supplied)
  matched,         \* anyMatch's result
  \* ---- cache resolution (cacheFile, cacheDir, autoGeneratedCacheDir)
  cacheDirPath,    \* the closure variable of autoGeneratedCacheDir
  fs,              \* the paths that exist in the file system (files and directories)
  findCalls,       \* how many times findCacheDir has been called in this process
  call,            \* the latest cacheFile call: its arguments, what the environment did, its completion
  prev,            \* an earlier cacheFile call that returned (same shape), or NoCall
  lastOp           \* the latest step: "init", "cacheFile", "external"

matchVars == <<mpc, matchItems, matchers, item, regExpMatchers, extraMatchers, matched>>
cacheVars == <<cacheDirPath, fs, findCalls, call, prev, lastOp>>
vars == <<mpc, matchItems, matchers, item, regExpMatchers, extraMatchers, matched,
          cacheDirPath, fs, findCalls, call, prev, lastOp>>

----------------------------------------------------------------------------
(* Bounds of the model *)

MaxLen == 2      \* longest single filter value and longest candidate, in characters
MaxItems == 2    \* longest collection given to createMatchers
MaxFinds == 2    \* cap on the number of findCacheDir calls that are followed
MaxFiles == 1    \* cap on the number of artifact files written by the pipeline

----------------------------------------------------------------------------
(* JavaScript values *)

Undefined == [t |-> "undefined"]
Null == [t |-> "null"]
Str(s) == [t |-> "string", s |-> s]
Num(n) == [t |-> "number", n |-> n]
Arr(elems) == [t |-> "Array", elems |-> elems]
\* a RegExp object; obj tells objects apart (0: created inside this module's code)
Re(source, obj) == [t |-> "RegExp", source |-> source, obj |-> obj]

Normal(v) == [c |-> "normal", v |-> v]
Throw == [c |-> "throw"]
NotCalled == [c |-> "none"]

\* !v
Falsy(v) ==
  \/ v.t \in {"undefined", "null"}
  \/ v.t = "string" /\ v.s = <<>>
  \/ v.t = "number" /\ v.n = 0

\* v instanceof RegExp
IsRegExp(v) == v.t = "RegExp"

\* Array.isArray(v)
IsArray(v) == v.t = "Array"

Digits == <<"0", "1", "2", "3", "4", "5", "6", "7", "8", "9">>

\* Number.prototype.toString of a non-negative integer
RECURSIVE Decimal(_)
Decimal(n) ==
  IF n < 10 THEN <<Digits[n + 1]>>
  ELSE Decimal(n \div 10) \o <<Digits[(n % 10) + 1]>>

\* String(v); Array.prototype.join turns null and undefined elements into ""
RECURSIVE StringOf(_)
RECURSIVE JoinElems(_, _)
JoinElems(elems, sep) ==
  IF elems = <<>> THEN <<>>
  ELSE LET h == Head(elems)
           hs == IF h.t \in {"undefined", "null"} THEN <<>> ELSE StringOf(h)
       IN IF Len(elems) = 1 THEN hs ELSE hs \o sep \o JoinElems(Tail(elems), sep)

StringOf(v) ==
  CASE v.t = "undefined" -> <<"u", "n", "d", "e", "f", "i", "n", "e", "d">>
    [] v.t = "null" -> <<"n", "u", "l", "l">>
    [] v.t = "string" -> v.s
    [] v.t = "number" -> Decimal(v.n)
    [] v.t = "RegExp" -> <<"/">> \o v.source \o <<"/">>
    [] v.t = "Array" -> JoinElems(v.elems, <<",">>)

\* does value.toString() complete normally (null and undefined have no properties)
HasToString(v) == v.t \notin {"undefined", "null"}

\* value.toString()
toString(v) == StringOf(v)

----------------------------------------------------------------------------
(* Regular expressions: RegExp.prototype.test for the syntax that occurs:   *)
(* literals, \c, ., ^, $, (?:...) and (...), |, and the quantifiers ? * +   *)

\* index of the ")" closing the group whose body starts at i
RECURSIVE closeParen(_, _, _)
closeParen(p, i, depth) ==
  IF i > Len(p) THEN Len(p) + 1
  ELSE IF p[i] = "\\" THEN closeParen(p, i + 2, depth)
  ELSE IF p[i] = "(" THEN closeParen(p, i + 1, depth + 1)
  ELSE IF p[i] = ")" THEN (IF depth = 0 THEN i ELSE closeParen(p, i + 1, depth - 1))
  ELSE closeParen(p, i + 1, depth)

\* index of the first "|" of p[i..hi] outside any group, or 0
RECURSIVE topBar(_, _, _, _)
topBar(p, i, hi, depth) ==
  IF i > hi THEN 0
  ELSE IF p[i] = "\\" THEN topBar(p, i + 2, hi, depth)
  ELSE IF p[i] = "(" THEN topBar(p, i + 1, hi, depth + 1)
  ELSE IF p[i] = ")" THEN topBar(p, i + 1, hi, depth - 1)
  ELSE IF p[i] = "|" /\ depth = 0 THEN i
  ELSE topBar(p, i + 1, hi, depth)

\* the positions of str where a match of p[lo..hi] can end when it starts at a position of S
RECURSIVE matchAlt(_, _, _, _, _)
RECURSIVE matchSeq(_, _, _, _, _)
RECURSIVE matchOnce(_, _, _, _, _)
RECURSIVE matchStar(_, _, _, _, _)

matchAlt(p, lo, hi, str, S) ==
  LET k == topBar(p, lo, hi, 0)
  IN IF k = 0 THEN matchSeq(p, lo, hi, str, S)
     ELSE matchSeq(p, lo, k - 1, str, S) \cup matchAlt(p, k + 1, hi, str, S)

\* one match of the atom p[lo..atomEnd]
matchOnce(p, lo, atomEnd, str, S) ==
  IF p[lo] = "^" THEN {x \in S : x = 0}
  ELSE IF p[lo] = "$" THEN {x \in S : x = Len(str)}
  ELSE IF p[lo] = "\\" THEN {x + 1 : x \in {y \in S : y < Len(str) /\ str[y + 1] = p[lo + 1]}}
  ELSE IF p[lo] = "." THEN {x + 1 : x \in {y \in S : y < Len(str)}}
  ELSE IF p[lo] = "("
    THEN LET inner == IF lo + 2 <= atomEnd /\ p[lo + 1] = "?" /\ p[lo + 2] = ":"
                      THEN lo + 3 ELSE lo + 1
         IN matchAlt(p, inner, atomEnd - 1, str, S)
  ELSE {x + 1 : x \in {y \in S : y < Len(str) /\ str[y + 1] = p[lo]}}

matchStar(p, lo, atomEnd, str, S) ==
  LET n == S \cup matchOnce(p, lo, atomEnd, str, S)
  IN IF n = S THEN S ELSE matchStar(p, lo, atomEnd, str, n)

matchSeq(p, lo, hi, str, S) ==
  IF lo > hi \/ S = {} THEN S
  ELSE LET atomEnd == IF p[lo] = "\\" THEN lo + 1
                      ELSE IF p[lo] = "(" THEN closeParen(p, lo + 1, 0)
                      ELSE lo
           q == IF atomEnd + 1 <= hi /\ p[atomEnd + 1] \in {"?", "*", "+"}
                THEN p[atomEnd + 1] ELSE "1"
           once == matchOnce(p, lo, atomEnd, str, S)
           ends == IF q = "1" THEN once
                   ELSE IF q = "?" THEN S \cup once
                   ELSE IF q = "*" THEN matchStar(p, lo, atomEnd, str, S)
                   ELSE matchStar(p, lo, atomEnd, str, once)
           next == IF q = "1" THEN atomEnd + 1 ELSE atomEnd + 2
       IN matchSeq(p, next, hi, str, ends)

\* matcher.test(str): the pattern matches somewhere in str
test(matcher, str) ==
  matchAlt(matcher.source, 1, Len(matcher.source), str, 0..Len(str)) # {}

----------------------------------------------------------------------------
(* RegExp.escape and createMatchers *)

Metachars == {"\\", "^", "$", "*", "+", "?", ".", "(", ")", "|", "[", "]", "{", "}"}

\* str.replace(/[\\^$*+?.()|[\]{}]/g, '\\$&')
RECURSIVE replaceMeta(_)
replaceMeta(str) ==
  IF str = <<>> THEN <<>>
  ELSE (IF Head(str) \in Metachars THEN <<"\\", Head(str)>> ELSE <<Head(str)>>)
       \o replaceMeta(Tail(str))

\* a plausible slip: the character class misses "." and "|"
RegExpEscapeLoose(s) ==
  LET RECURSIVE rep(_)
      rep(str) ==
        IF str = <<>> THEN <<>>
        ELSE (IF Head(str) \in Metachars \ {".", "|"} THEN <<"\\", Head(str)>> ELSE <<Head(str)>>)
             \o rep(Tail(str))
  IN rep(StringOf(s))

RegExpEscape(s) == replaceMeta(StringOf(s))

\* a plausible slip: the anchors are left out
exactRegExpUnanchored(pattern) == Re(<<"(", "?", ":">> \o pattern \o <<")">>, 0)

exactRegExp(pattern) == Re(<<"^", "(", "?", ":">> \o pattern \o <<")", "$">>, 0)

\* arr.map(value => RegExp.escape(value.toString())).join('|')
RECURSIVE escapedAlternation(_)
escapedAlternation(arr) ==
  IF arr = <<>> THEN <<>>
  ELSE LET h == RegExpEscape(Str(toString(Head(arr))))
       IN IF Len(arr) = 1 THEN h ELSE h \o <<"|">> \o escapedAlternation(Tail(arr))

\* throws when an element has no toString
arrayRegExp(arr) ==
  IF \E i \in 1..Len(arr) : ~HasToString(arr[i]) THEN Throw
  ELSE Normal(exactRegExp(escapedAlternation(arr)))

\* a plausible slip: the patterns are collected in reverse (unshift for push)
regExpsOfReversed(arr) ==
  LET r == SelectSeq(arr, IsRegExp)
  IN [i \in 1..Len(r) |-> r[Len(r) + 1 - i]]

\* the forEach of lines 84-86: ret collects the patterns, strings the rest
regExpsOf(arr) == SelectSeq(arr, IsRegExp)

stringsOf(arr) == SelectSeq(arr, LAMBDA mz : ~IsRegExp(mz))

createMatchers(mi) ==
  IF Falsy(mi) THEN Normal(Arr(<<Re(<<".", "?">>, 0)>>))
  ELSE IF IsRegExp(mi) THEN Normal(Arr(<<mi>>))
  ELSE IF IsArray(mi) THEN
    LET hasRegExp == \E i \in 1..Len(mi.elems) : IsRegExp(mi.elems[i])
    IN IF ~hasRegExp
       THEN LET r == arrayRegExp(mi.elems)
            IN IF r.c = "throw" THEN Throw ELSE Normal(Arr(<<r.v>>))
       ELSE LET ret == regExpsOf(mi.elems)
                strings == stringsOf(mi.elems)
            IN IF Len(strings) > 0
               THEN LET r == arrayRegExp(strings)
                    IN IF r.c = "throw" THEN Throw ELSE Normal(Arr(Append(ret, r.v)))
               ELSE Normal(Arr(ret))
  ELSE IF ~HasToString(mi) THEN Throw
  ELSE Normal(Arr(<<exactRegExp(RegExpEscape(Str(toString(mi))))>>))

----------------------------------------------------------------------------
(* anyMatch *)

\* a plausible slip: || for && across the two sets
anyMatchOr(it, rms, ems) ==
  LET one(ms) == IF Falsy(ms) \/ Len(ms.elems) = 0 THEN TRUE
                 ELSE \E i \in 1..Len(ms.elems) : test(ms.elems[i], it)
  IN IF ems # Undefined THEN one(rms) \/ one(ems) ELSE one(rms)

RECURSIVE anyMatch(_, _, _)
anyMatch(it, rms, ems) ==
  IF ems # Undefined
  THEN anyMatch(it, rms, Undefined) /\ anyMatch(it, ems, Undefined)
  ELSE IF Falsy(rms) \/ Len(rms.elems) = 0 THEN TRUE
  ELSE \E i \in 1..Len(rms.elems) : test(rms.elems[i], it)

----------------------------------------------------------------------------
(* The inputs the matcher functions are exercised on *)

Alphabet == {"a", ".", "|"}
Strings(n) == UNION {[1..k -> Alphabet] : k \in 0..n}
Candidates == Strings(MaxLen)

ReA == Re(<<"^", "a">>, 1)        \* /^a/
ReDot == Re(<<"\\", ".">>, 2)     \* /\./

Elements == {Str(<<>>), Str(<<"a">>), Str(<<".">>), Str(<<"|">>), ReA, ReDot, Null}
Collections == {Arr(e) : e \in UNION {[1..k -> Elements] : k \in 0..MaxItems}}
MatchSpecs ==
  {Undefined, Null, Num(0), Num(7), ReA, ReDot}
    \cup {Str(s) : s \in Strings(MaxLen)} \cup Collections

\* the matcher sets anyMatch is given: the compiled one, none, or an empty one
PrimarySets == (IF matchers.c = "normal" THEN {matchers.v} ELSE {}) \cup {Undefined, Null, Arr(<<>>)}
ExtraSets == {Undefined, Null, Arr(<<>>), Arr(<<ReA>>), Arr(<<ReDot, exactRegExp(<<"a">>)>>)}

MatchInitValues ==
  /\ mpc = "start"
  /\ matchers = NotCalled
  /\ item = <<>>
  /\ regExpMatchers = Undefined
  /\ extraMatchers = Undefined
  /\ matched = FALSE

CacheInitValues ==
  /\ cacheDirPath = Undefined
  /\ fs = {<<"/tmp">>, <<"/proj">>}
  /\ findCalls = 0
  /\ call = NotCalled
  /\ prev = NotCalled
  /\ lastOp = "init"

\* const matchers = createMatchers(matchItems)
CreateMatchers ==
  /\ mpc = "start"
  /\ matchers' = createMatchers(matchItems)
  /\ mpc' = "compiled"
  /\ UNCHANGED <<matchItems, item, regExpMatchers, extraMatchers, matched>>
  /\ UNCHANGED cacheVars

\* anyMatch(item, regExpMatchers, extraMatchers)
AnyMatch ==
  /\ mpc = "compiled"
  /\ \E it \in Candidates, rms \in PrimarySets, ems \in ExtraSets :
       /\ item' = it
       /\ regExpMatchers' = rms
       /\ extraMatchers' = ems
       /\ matched' = anyMatch(it, rms, ems)
  /\ mpc' = "matched"
  /\ UNCHANGED <<matchItems, matchers>>
  /\ UNCHANGED cacheVars

InitMatch == matchItems \in MatchSpecs /\ MatchInitValues /\ CacheInitValues
NextMatch == CreateMatchers \/ AnyMatch
SpecMatch == InitMatch /\ [][NextMatch]_vars

----------------------------------------------------------------------------
(* Claims about createMatchers and anyMatch, checked under SpecMatch *)

\* the single-set rule: the set is absent, or empty, or one of its matchers accepts x
PassesSet(x, ms) ==
  \/ ms \in {Undefined, Null}
  \/ ms.elems = <<>>
  \/ \E i \in DOMAIN ms.elems : test(ms.elems[i], x)

\* C1: anyMatch with only a primary set returns true iff the set is absent or empty
\* or one of its matchers accepts the candidate; with a secondary set supplied it
\* returns true iff the candidate passes both sets, each by that single-set rule.
C1_OrWithinAndAcross ==
  mpc = "matched" =>
    matched = (/\ PassesSet(item, regExpMatchers)
               /\ (extraMatchers # Undefined => PassesSet(item, extraMatchers)))

\* a call with two non-empty sets where the candidate passes the first and fails the second
C1_Witness ==
  /\ mpc = "matched"
  /\ IsArray(matchItems) /\ matchers.c = "normal" /\ regExpMatchers = matchers.v
  /\ extraMatchers = Arr(<<ReA>>)
  /\ PassesSet(item, regExpMatchers) /\ ~PassesSet(item, extraMatchers)
  /\ matched = FALSE

\* C2 as stated: createMatchers([]) returns a set of zero matchers.
C2_EmptyCollectionGivesEmptySet ==
  (mpc = "compiled" /\ matchItems = Arr(<<>>)) =>
    (matchers.c = "normal" /\ Len(matchers.v.elems) = 0)

\* C2 as amended: createMatchers([]) returns exactly one matcher, ^(?:)$, which is not
\* the match-everything matcher of an absent specification; anyMatch of a candidate
\* against that set is true iff the candidate is the empty string.
C2_EmptyCollectionGivesEmptyStringMatcher ==
  (mpc = "compiled" /\ matchItems = Arr(<<>>)) =>
    /\ matchers.c = "normal"
    /\ Len(matchers.v.elems) = 1
    /\ matchers.v.elems[1].source = <<"^", "(", "?", ":", ")", "$">>
    /\ matchers # createMatchers(Undefined)
    /\ \A x \in Candidates : anyMatch(x, matchers.v, Undefined) = (x = <<>>)
    /\ \A x \in Candidates : anyMatch(x, createMatchers(Undefined).v, Undefined)

C2_Witness == mpc = "compiled" /\ matchItems = Arr(<<>>) /\ matchers.c = "normal"

\* C3: createMatchers never raises: a falsy input yields the match-everything set, a
\* pattern yields itself, and every other input yields a matcher set, not an error.
C3_CreateMatchersNeverRaises ==
  mpc = "compiled" =>
    /\ matchers.c = "normal"
    /\ Falsy(matchItems) => matchers.v.elems = <<Re(<<".", "?">>, 0)>>
    /\ IsRegExp(matchItems) => matchers.v.elems = <<matchItems>>

\* a single plain value: a string or a number
IsPlainSingle(v) == v.t \in {"string", "number"}

\* the indices of the plain elements of a collection
PlainAt(e) == {i \in DOMAIN e : ~IsRegExp(e[i])}

\* the matcher built from plain values accepts exactly their string forms
ExactLiteral(mi, ms) ==
  IF IsArray(mi)
  THEN \A x \in Candidates :
         test(ms[Len(ms)], x) <=> \E i \in PlainAt(mi.elems) : x = StringOf(mi.elems[i])
  ELSE \A x \in Candidates : test(ms[1], x) <=> x = StringOf(mi)

\* C4 as stated: the matcher built from a single plain value v accepts x iff x is the
\* string form of v, and the one built from a collection of plain values accepts x
\* iff x is the string form of one of them.
C4_ExactLiteralForEveryPlainInput ==
  (/\ mpc = "compiled" /\ matchers.c = "normal"
   /\ \/ IsPlainSingle(matchItems)
      \/ IsArray(matchItems) /\ PlainAt(matchItems.elems) = DOMAIN matchItems.elems)
    => ExactLiteral(matchItems, matchers.v.elems)

\* C4 as amended: the same for a truthy single plain value (not "" and not 0) and for
\* a collection with at least one plain element (the combined matcher, which is last).
C4_ExactLiteralForTruthyAndNonEmpty ==
  (/\ mpc = "compiled" /\ matchers.c = "normal"
   /\ \/ IsPlainSingle(matchItems) /\ ~Falsy(matchItems)
      \/ IsArray(matchItems) /\ PlainAt(matchItems.elems) # {})
    => ExactLiteral(matchItems, matchers.v.elems)

\* a collection of two values with metacharacters has been compiled
C4_Witness ==
  /\ mpc = "compiled" /\ matchers.c = "normal"
  /\ matchItems = Arr(<<Str(<<"|">>), Str(<<".">>)>>)
  /\ test(matchers.v.elems[1], <<".">>) /\ ~test(matchers.v.elems[1], <<"a">>)

\* the index in e of its k-th pattern
PatternAt(e, k) ==
  CHOOSE i \in DOMAIN e :
    IsRegExp(e[i]) /\ Cardinality({j \in 1..i : IsRegExp(e[j])}) = k

\* C5: a collection with at least one pattern compiles to its patterns, unchanged and
\* in their order, followed by one combined matcher iff it has a plain element; a
\* collection of plain values only compiles to exactly one matcher.
C5_PatternsFirstThenCombined ==
  (mpc = "compiled" /\ matchers.c = "normal" /\ IsArray(matchItems)) =>
    LET e == matchItems.elems
        r == matchers.v.elems
        nP == Cardinality(DOMAIN e \ PlainAt(e))
        nS == Cardinality(PlainAt(e))
    IN IF nP = 0 THEN Len(r) = 1
       ELSE /\ Len(r) = nP + (IF nS > 0 THEN 1 ELSE 0)
            /\ \A k \in 1..nP : r[k] = e[PatternAt(e, k)]
            /\ nS > 0 => (r[Len(r)].obj = 0 /\ r[Len(r)] \notin {e[i] : i \in DOMAIN e})

\* a collection of a plain value followed by a pattern has been compiled
C5_Witness ==
  /\ mpc = "compiled" /\ matchers.c = "normal"
  /\ matchItems = Arr(<<Str(<<"a">>), ReA>>)
  /\ Len(matchers.v.elems) = 2 /\ matchers.v.elems[1] = ReA

----------------------------------------------------------------------------
(* cacheKey, cacheDir, autoGeneratedCacheDir, cacheFile *)

pluginName == <<"moment-timezone-data-webpack-plugin">>

\* os.tmpdir()
tmpdir == <<"/tmp">>

\* path.join(a, b)
pathJoin(a, b) == a \o <<"/">> \o b

\* path.join(os.tmpdir(), pluginName)
FallbackDir == pathJoin(tmpdir, pluginName)

\* the directory findCacheDir({name: pluginName, create: true}) delivers when it delivers one
FoundDir == pathJoin(<<"/proj", "/", "node_modules", "/", ".cache">>, pluginName)

\* what a call of findCacheDir can do: deliver the directory, deliver undefined
\* (no package.json, or node_modules not writable), or throw
FindCompletions == {Normal(Str(FoundDir)), Normal(Undefined), Throw}

\* JSON.stringify of a string
RECURSIVE jsonEscape(_)
jsonEscape(str) ==
  IF str = <<>> THEN <<>>
  ELSE (IF Head(str) \in {"\"", "\\"} THEN <<"\\", Head(str)>> ELSE <<Head(str)>>)
       \o jsonEscape(Tail(str))

jsonString(str) == <<"\"">> \o jsonEscape(str) \o <<"\"">>

cacheKey(tzdata, config) ==
  <<"{", "\"version\":">> \o jsonString(tzdata.version)
    \o <<",", "\"zones\":">> \o jsonString(StringOf(config.matchZones))
    \o <<",", "\"countries\":">> \o jsonString(StringOf(config.matchCountries))
    \o <<",", "\"dates\":", "[">> \o Decimal(config.startYear)
    \o <<",">> \o Decimal(config.endYear) \o <<"]", "}">>

\* crypto.createHash('md5').update(key).digest('hex'): the digest is taken to be
\* free of collisions, and stands as the key between two marks
md5hex(key) == <<"md5(">> \o key \o <<")">>

\* fs.existsSync(p)
existsSync(fsNow, p) == p \in fsNow

\* mkdir.sync(p): p and the directories above it exist afterwards
mkdirSync(fsNow, p) ==
  fsNow \cup {p} \cup {SubSeq(p, 1, k) : k \in {j \in 1..(Len(p) - 1) : p[j + 1] = "/"}}

\* the value of cacheDirPath after lines 126-132, found being what findCacheDir does
autoGeneratedCacheDirPath(memo, found) ==
  IF Falsy(memo)
  THEN IF found.c = "throw" THEN Str(FallbackDir) ELSE found.v
  ELSE memo

\* a plausible slip: the override is stored in the closure variable of the same name
cacheDirPathAfterClobbered(dirArg, memo, found) ==
  IF ~Falsy(dirArg) THEN dirArg ELSE autoGeneratedCacheDirPath(memo, found)

\* the closure variable cacheDirPath after cacheDir(dirArg) has run
cacheDirPathAfter(dirArg, memo, found) ==
  IF ~Falsy(dirArg) THEN memo ELSE autoGeneratedCacheDirPath(memo, found)

\* the directory cacheDir(dirArg) hands to mkdir.sync and returns
cacheDir(dirArg, memoAfter) ==
  IF ~Falsy(dirArg) THEN dirArg ELSE memoAfter

\* a plausible slip: the existence test looks at the directory
descriptorOfDir(fsNow, dir, filename) ==
  [path |-> pathJoin(dir, filename), exists |-> existsSync(fsNow, dir)]

\* lines 152-156: { path: filepath, exists: fs.existsSync(filepath) }
descriptor(fsNow, dir, filename) ==
  [path |-> pathJoin(dir, filename), exists |-> existsSync(fsNow, pathJoin(dir, filename))]

----------------------------------------------------------------------------
(* The inputs cacheFile is exercised on *)

Tzdata(version) == [version |-> version]
Tzdatas == {Tzdata(<<"2", "0", "2", "3", "a">>)}

Config(zones, countries, startYear, endYear) ==
  [matchZones |-> zones, matchCountries |-> countries,
   startYear |-> startYear, endYear |-> endYear]

StrAB == Str(<<"a", ",", "b">>)                        \* "a,b"
ArrAB == Arr(<<Str(<<"a">>), Str(<<"b">>)>>)           \* ["a", "b"]
StrUndefined == Str(StringOf(Undefined))               \* "undefined"

Configs ==
  { Config(StrAB, Undefined, 2020, 2021),
    Config(ArrAB, Undefined, 2020, 2021),
    Config(ArrAB, Undefined, 2020, 2020),
    Config(StrAB, StrUndefined, 2020, 2021) }

\* the third argument of cacheFile: absent, or an override directory
CacheDirArgs == {Undefined, Str(<<"/o">>)}

\* a file name ends in ".json"; no directory of the model does
IsArtifact(p) == p[Len(p)] = ".json"

\* what is kept of an earlier call that returned
Kept(k) == [c |-> "normal", tzdata |-> k.tzdata, config |-> k.config, dir |-> k.dir,
            path |-> k.path, exists |-> k.exists]

\* cacheFile(tzdata, config, cacheDirPath); found and mkdirOk are what the environment
\* does: the completion of findCacheDir (when it is called) and whether directories
\* may be created.  remember keeps the previous call for comparison.
CacheFile ==
  \E tzdata \in Tzdatas, config \in Configs, dirArg \in CacheDirArgs :
    LET key == cacheKey(tzdata, config)
        filename == md5hex(key) \o <<".json">>
        auto == Falsy(dirArg)
        discover == auto /\ Falsy(cacheDirPath)
    IN /\ discover => findCalls < MaxFinds
       /\ \E found \in (IF discover THEN FindCompletions ELSE {NotCalled}),
             mkdirOk \in BOOLEAN,
             remember \in (IF call.c = "normal" THEN BOOLEAN ELSE {FALSE}) :
            LET memo == cacheDirPathAfter(dirArg, cacheDirPath, found)
                dir == cacheDir(dirArg, memo)
                fsFound == IF found = Normal(Str(FoundDir)) THEN mkdirSync(fs, FoundDir) ELSE fs
                mkdirThrows == Falsy(dir) \/ ~mkdirOk
                fsMade == IF mkdirThrows THEN fsFound ELSE mkdirSync(fsFound, dir.s)
                d == IF mkdirThrows THEN [path |-> <<>>, exists |-> FALSE]
                     ELSE descriptor(fsMade, dir.s, filename)
            IN /\ cacheDirPath' = memo
               /\ fs' = fsMade
               /\ findCalls' = IF discover THEN findCalls + 1 ELSE findCalls
               /\ call' = [c |-> IF mkdirThrows THEN "throw" ELSE "normal",
                           tzdata |-> tzdata, config |-> config, dir |-> dirArg,
                           found |-> IF found.c = "none" THEN "notCalled"
                                     ELSE IF found.c = "throw" THEN "throw"
                                     ELSE IF found.v = Undefined THEN "undefined" ELSE "path",
                           denied |-> ~Falsy(dir) /\ ~mkdirOk,
                           path |-> d.path, exists |-> d.exists]
               /\ prev' = IF remember THEN Kept(call) ELSE prev
               /\ lastOp' = "cacheFile"
               /\ UNCHANGED matchVars

\* the pipeline writes the artifact at the path the latest call reported
ExternalWrite ==
  /\ call.c = "normal"
  /\ call.path \notin fs
  /\ Cardinality({p \in fs : IsArtifact(p)}) < MaxFiles
  /\ fs' = fs \cup {call.path}
  /\ lastOp' = "external"
  /\ UNCHANGED <<cacheDirPath, findCalls, call, prev>>
  /\ UNCHANGED matchVars

\* somebody removes an artifact
ExternalRemove ==
  /\ \E p \in {q \in fs : IsArtifact(q)} : fs' = fs \ {p}
  /\ lastOp' = "external"
  /\ UNCHANGED <<cacheDirPath, findCalls, call, prev>>
  /\ UNCHANGED matchVars

Init == matchItems = Undefined /\ MatchInitValues /\ CacheInitValues
Next == CacheFile \/ ExternalWrite \/ ExternalRemove
Spec == Init /\ [][Next]_vars

----------------------------------------------------------------------------
(* Claims about cacheFile, checked under Spec *)

\* the two calls have the same effective inputs: version tag, string forms of the
\* filters, years, and cache-root override (or both none)
SameEffectiveInputs(k1, k2) ==
  /\ k1.tzdata.version = k2.tzdata.version
  /\ StringOf(k1.config.matchZones) = StringOf(k2.config.matchZones)
  /\ StringOf(k1.config.matchCountries) = StringOf(k2.config.matchCountries)
  /\ k1.config.startYear = k2.config.startYear
  /\ k1.config.endYear = k2.config.endYear
  /\ \/ Falsy(k1.dir) /\ Falsy(k2.dir)
     \/ k1.dir = k2.dir

\* C6: two calls of cacheFile in one process with the same effective inputs return
\* the same path, whatever happens between them.
C6_SameInputsSamePath ==
  (prev.c = "normal" /\ call.c = "normal" /\ SameEffectiveInputs(prev, call))
    => prev.path = call.path

\* two calls without override, with differently built configurations of equal string
\* forms, the artifact appearing between them
C6_Witness ==
  /\ prev.c = "normal" /\ call.c = "normal" /\ SameEffectiveInputs(prev, call)
  /\ Falsy(prev.dir)
  /\ prev.config # call.config
  /\ ~prev.exists /\ call.exists
  /\ prev.path = call.path

\* C7: in every cacheFile call that returns, exists is true iff a file is at the
\* returned path when the call is made, and the call creates and removes no artifact.
C7_ExistsIsPresenceAtCallTime ==
  [][ (lastOp' = "cacheFile" /\ call'.c = "normal") =>
        /\ call'.exists <=> call'.path \in fs
        /\ call'.exists <=> call'.path \in fs'
        /\ {p \in fs' : IsArtifact(p)} = {p \in fs : IsArtifact(p)} ]_vars

\* exists was false, the file was written at the reported path, and the next call
\* with the same inputs reports true
C7_Witness ==
  /\ lastOp = "cacheFile"
  /\ prev.c = "normal" /\ call.c = "normal" /\ SameEffectiveInputs(prev, call)
  /\ prev.path = call.path
  /\ ~prev.exists /\ call.exists

\* p lies under the directory d
IsUnder(p, d) == Len(p) > Len(d) /\ SubSeq(p, 1, Len(d)) = d

\* C8: when cacheFile is called without override and findCacheDir does not deliver a
\* directory, the call returns a descriptor whose path lies under the fallback directory
\* (unless creating the fallback directory itself is refused).
C8_FallbackWheneverDiscoveryFails ==
  (call.c # "none" /\ Falsy(call.dir) /\ call.found \in {"throw", "undefined"} /\ ~call.denied)
    => (call.c = "normal" /\ IsUnder(call.path, FallbackDir))

\* C9: findCacheDir is attempted at most once per process, the memoized cache root
\* never changes once it has a value, and it is the root of every later call without
\* override.
C9_DiscoveryAtMostOnce ==
  [][ /\ findCalls' <= 1
      /\ ~Falsy(cacheDirPath) => cacheDirPath' = cacheDirPath
      /\ (lastOp' = "cacheFile" /\ call'.c = "normal" /\ Falsy(call'.dir))
           => (~Falsy(cacheDirPath') /\ IsUnder(call'.path, cacheDirPath'.s)) ]_vars

\* the candidates the two selections are compared on
SelectionCandidates ==
  {<<>>, <<"a">>, <<"b">>, <<"a", ",", "b">>, StringOf(Undefined)}

\* the two filters select the same candidates
SameSelection(f1, f2) ==
  LET m1 == createMatchers(f1)
      m2 == createMatchers(f2)
  IN /\ m1.c = "normal" /\ m2.c = "normal"
     /\ \A x \in SelectionCandidates :
          anyMatch(x, m1.v, Undefined) = anyMatch(x, m2.v, Undefined)

\* C10: for a fixed version and cache root, two configurations resolve to the same
\* path only if their zone filters select the same candidates, their country filters
\* select the same candidates, and their years are equal.
C10_SamePathSameSelection ==
  (/\ prev.c = "normal" /\ call.c = "normal"
   /\ prev.tzdata.version = call.tzdata.version
   /\ (Falsy(prev.dir) /\ Falsy(call.dir)) \/ prev.dir = call.dir
   /\ prev.path = call.path)
    => /\ SameSelection(prev.config.matchZones, call.config.matchZones)
       /\ SameSelection(prev.config.matchCountries, call.config.matchCountries)
       /\ prev.config.startYear = call.config.startYear
       /\ prev.config.endYear = call.config.endYear

====
